---- MODULE Spec2Model ----
(***************************************************************************)
(* A model of src/src/dos/direct/ts/direct.ts: the startup handshake       *)
(* DosDirect, and the DirectCommandInterface it creates (lifecycle         *)
(* requests persist/exit, the key matrix and the input entry points, and   *)
(* screenshot).                                                            *)
(*                                                                         *)
(* JavaScript runs on one thread.  A call from the host into the embedded  *)
(* module (callMain, _runRuntime, _packFsToBundle, _requestExit) is a      *)
(* frame on `stack`; while a frame is open the module may call back into   *)
(* the slots the host registered, and an event handler of the host may     *)
(* call the interface again (a re-entrant call).  Promise reactions        *)
(* (microtasks) run only when the stack is empty, and before any other     *)
(* task.                                                                   *)
(***************************************************************************)
EXTENDS Integers, Sequences, FiniteSets, TLC

(* ------------------------------ bounds -------------------------------- *)
MaxInput == 3      \* input calls (keys, mouse) by the host
MaxTicks == 2      \* advances of the wall clock
MaxDim == 2        \* width and height of the frame
MaxShots == 2      \* screenshot() calls by the host
MaxWrites == 1     \* writes of the module to its memory after Init
MaxFrags == 2      \* diagnostics the module emits on its error sink
MaxCalls == 2      \* calls of persist(), and of exit(), by the host
MaxDepth == 2      \* nested module requests (re-entrancy depth)
MaxSoundInits == 2 \* invocations of onSoundInit by the module
MaxOps == 3        \* operations in a run that mixes every entry point

Archives == {"A", "B"}
KeyCodes == {1, 2}
Frequencies == {22050, 44100}
MouseX == {0, 1}
MouseY == {0}
Buttons == {0}
\* What the wall clock advances by between two host calls.
ClockSteps == {10}
\* Line 131: a simulated key is released 16 ms after it is pressed.
KeyHoldMs == 16
\* The argument lists of the module's err/printErr calls: one string each.
Frags == { << <<"e">> >>, << <<"\"">> >> }

VARIABLES
    hs,              \* position of DosDirect (lines 39-56)
    ciPromise,       \* the promise of line 41: pending / resolved / rejected
    ctorErr,         \* the exception the constructor's catch saw, or "none"
    hsErr,           \* the error DosDirect rejected with
    startupErrorLog, \* line 10, a string as a sequence of characters
    errSink,         \* module.err / module.printErr: "startup" or "normal"
    emitted,         \* the argument lists emitted while the startup sink was armed
    stack,           \* open host-to-module calls, innermost last
    persistPromise,  \* line 63: 0 (undefined) or a persist promise
    exitPromise,     \* line 64: 0 (undefined) or an exit promise
    pprom,           \* the promises persist() created
    eprom,           \* the promises exit() created (inner, and its .then)
    modPersist,      \* slot module.persist: 0 or the promise it resolves
    modExit,         \* slot module.exit: 0 or the promise it resolves
    calls,           \* how often each module entry point was invoked
    exitEvents,      \* Exit events fired on the Event Bus
    persistRets,     \* what each finished persist() call returned
    exitRets,        \* what each finished exit() call returned
    nPersist,        \* persist() calls started by the host
    nExit,           \* exit() calls started by the host
    errorEvents,     \* error-level Log events fired on the Event Bus
    keyMatrix,       \* line 67: key code -> pressed, for the codes recorded
    sent,            \* the input events the module has received, in order
    now,             \* Date.now() - startedAt, the wall clock since line 61
    ticks,           \* how often the wall clock has advanced
    nInput,          \* input calls made by the host
    lastCall,        \* the last input call: its arguments and the state before it
    heap,            \* module.HEAPU8: address -> byte
    frameW,          \* what module._getFrameWidth() returns
    frameH,          \* what module._getFrameHeight() returns
    rgbaPtr,         \* what module._getFrameRgba() returns
    shot,            \* the ImageData the last screenshot() returned
    nShots,          \* screenshot() calls made by the host
    nWrites,         \* writes of the module to its memory
    freq,            \* line 65: the stored sample rate
    supplied         \* the frequencies the module passed to onSoundInit

hsVars == <<hs, ciPromise, ctorErr, hsErr, startupErrorLog, errSink, emitted>>
ciVars == <<stack, persistPromise, exitPromise, pprom, eprom, modPersist,
            modExit, calls, exitEvents, persistRets, exitRets, nPersist, nExit,
            errorEvents>>

inputVars == <<keyMatrix, sent, now, ticks, nInput, lastCall>>
shotVars == <<heap, frameW, frameH, rgbaPtr, shot, nShots, nWrites>>
soundVars == <<freq, supplied>>
lifeVars == <<hsVars, ciVars>>

(* ------------------------- JSON.stringify ----------------------------- *)
\* One character of a string inside a JSON string literal.
EscapeChar(c) ==
    IF c = "\"" THEN <<"\\", "\"">>
    ELSE IF c = "\\" THEN <<"\\", "\\">>
    ELSE <<c>>

RECURSIVE EscapeString(_)
EscapeString(s) ==
    IF s = <<>> THEN <<>> ELSE EscapeChar(Head(s)) \o EscapeString(Tail(s))

QuoteString(s) == <<"\"">> \o EscapeString(s) \o <<"\"">>

RECURSIVE JoinArgs(_)
JoinArgs(args) ==
    IF args = <<>> THEN <<>>
    ELSE IF Len(args) = 1 THEN QuoteString(Head(args))
    ELSE QuoteString(Head(args)) \o <<",">> \o JoinArgs(Tail(args))

\* JSON.stringify of an array of strings.
JsonStringify(args) == <<"[">> \o JoinArgs(args) \o <<"]">>

\* startupErrorLog += JSON.stringify(args) + "\n"
AppendStartupLog(log, args) == log \o JsonStringify(args) \o <<"\n">>

(* ----------------------------- promises ------------------------------- *)
NoErr == [kind |-> "none", by |-> "none", msg |-> <<>>]
Thrown(by) == [kind |-> "thrown", by |-> by, msg |-> <<>>]
StartupError(log) == [kind |-> "startup", by |-> "DosDirect", msg |-> log]

\* A persist promise: its state and value, whether the module has invoked
\* its callback (lines 162-165), whether its request threw, and whether the
\* callback was invoked after the request threw.
NewPersistPromise ==
    [state |-> "pending", val |-> "none", cb |-> FALSE, threw |-> FALSE,
     cbAfterThrow |-> FALSE]
\* resolve(archive) and reject(e) of a promise: the first one wins.
ResolvePersist(p, a) ==
    IF p.state = "pending" THEN [p EXCEPT !.state = "resolved", !.val = a] ELSE p
RejectPersist(p, e) ==
    IF p.state = "pending" THEN [p EXCEPT !.state = "rejected", !.val = e] ELSE p
\* Lines 169-171: the catch rejects the promise with the exception.
PersistThrew(p) == [RejectPersist(p, "E_pack") EXCEPT !.threw = TRUE]
\* Lines 162-163: the callback module.persist resolves the promise.
PersistCallback(p, a) ==
    [ResolvePersist(p, a) EXCEPT !.cb = TRUE, !.cbAfterThrow = p.threw]

\* An exit promise: the promise of the executor (inner), the promise .then
\* returns (outer), and whether the module has invoked its resolve function.
NewExitPromise ==
    [inner |-> "pending", outer |-> "pending", cb |-> FALSE, threw |-> FALSE]
ResolveExit(p) ==
    [p EXCEPT !.inner = IF @ = "pending" THEN "resolved" ELSE @, !.cb = TRUE]
RejectExit(p) ==
    [p EXCEPT !.inner = IF @ = "pending" THEN "rejected" ELSE @, !.threw = TRUE]

Frame(fn, p) == [fn |-> fn, p |-> p]
Top == stack[Len(stack)]
Pop(s) == SubSeq(s, 1, Len(s) - 1)
Bump(f, k) == [f EXCEPT ![k] = @ + 1]

\* A promise reaction is queued: it runs before any other task.
ExitReactionPending ==
    \E p \in 1..Len(eprom) : eprom[p].inner # "pending" /\ eprom[p].outer = "pending"
MicrotaskPending ==
    \/ hs = "awaitCi"
    \/ ExitReactionPending
    \/ hs = "awaitExit" /\ exitPromise # 0 /\ eprom[exitPromise].outer # "pending"

\* The host is at the top of its event loop: a new task may start.
TaskBoundary == stack = <<>> /\ ~MicrotaskPending
\* The module runs: inside a request, or from its own timers once started.
ModuleRuns ==
    \/ stack # <<>>
    \/ TaskBoundary /\ hs \in {"instantiating", "awaitExit", "returned"}

(* ------------------------------- Init --------------------------------- *)
InitLife ==
    /\ hs = "instantiating"
    /\ ciPromise = "pending"
    /\ ctorErr = "none"
    /\ hsErr = NoErr
    /\ startupErrorLog = <<>>
    /\ errSink = "startup"
    /\ emitted = <<>>
    /\ stack = <<>>
    /\ persistPromise = 0
    /\ exitPromise = 0
    /\ pprom = <<>>
    /\ eprom = <<>>
    /\ modPersist = 0
    /\ modExit = 0
    /\ calls = [f \in {"callMain", "runRuntime", "packFsToBundle", "requestExit"} |-> 0]
    /\ exitEvents = 0
    /\ persistRets = <<>>
    /\ exitRets = <<>>
    /\ nPersist = 0
    /\ nExit = 0
    /\ errorEvents = 0

(* --------------------- DosDirect, lines 39-57 ------------------------- *)
\* wasm.instantiate(module) resolves; the continuation runs the constructor
\* up to its first call into the module, callMain (lines 73-90).
InstantiateOk ==
    /\ hs = "instantiating"
    /\ hs' = "constructing"
    /\ stack' = Append(stack, Frame("callMain", 0))
    /\ calls' = Bump(calls, "callMain")
    /\ UNCHANGED <<ciPromise, ctorErr, hsErr, startupErrorLog, errSink, emitted>>
    /\ UNCHANGED <<persistPromise, exitPromise, pprom, eprom, modPersist, modExit,
                   exitEvents, persistRets, exitRets, nPersist, nExit, errorEvents>>
    /\ UNCHANGED <<inputVars, shotVars, soundVars>>

\* wasm.instantiate(module) rejects: the await of line 39 throws.
InstantiateFail ==
    /\ hs = "instantiating"
    /\ hs' = "rejected"
    /\ hsErr' = Thrown("instantiate")
    /\ UNCHANGED <<ciPromise, ctorErr, startupErrorLog, errSink, emitted>>
    /\ UNCHANGED ciVars
    /\ UNCHANGED <<inputVars, shotVars, soundVars>>

\* callMain returns: ready(this) resolves the promise of line 41, and the
\* constructor calls _runRuntime (lines 91-92).
CallMainReturns ==
    /\ stack # <<>> /\ Top.fn = "callMain"
    /\ ciPromise' = "resolved"
    /\ stack' = Append(Pop(stack), Frame("runRuntime", 0))
    /\ calls' = Bump(calls, "runRuntime")
    /\ UNCHANGED <<hs, ctorErr, hsErr, startupErrorLog, errSink, emitted>>
    /\ UNCHANGED <<persistPromise, exitPromise, pprom, eprom, modPersist, modExit,
                   exitEvents, persistRets, exitRets, nPersist, nExit, errorEvents>>
    /\ UNCHANGED <<inputVars, shotVars, soundVars>>

\* callMain throws: the catch of line 44 rejects the promise of line 41.
CallMainThrows ==
    /\ stack # <<>> /\ Top.fn = "callMain"
    /\ ciPromise' = "rejected"
    /\ ctorErr' = "callMain"
    /\ stack' = Pop(stack)
    /\ hs' = "awaitCi"
    /\ UNCHANGED <<hsErr, startupErrorLog, errSink, emitted>>
    /\ UNCHANGED <<persistPromise, exitPromise, pprom, eprom, modPersist, modExit,
                   calls, exitEvents, persistRets, exitRets, nPersist, nExit,
                   errorEvents>>
    /\ UNCHANGED <<inputVars, shotVars, soundVars>>

\* The promise of line 41 after reject(e): a settled promise stays as it is.
RejectCi(state) == IF state = "pending" THEN "rejected" ELSE state

\* _runRuntime returns: the constructor is done.
RunRuntimeReturns ==
    /\ stack # <<>> /\ Top.fn = "runRuntime"
    /\ stack' = Pop(stack)
    /\ hs' = "awaitCi"
    /\ UNCHANGED <<ciPromise, ctorErr, hsErr, startupErrorLog, errSink, emitted>>
    /\ UNCHANGED <<persistPromise, exitPromise, pprom, eprom, modPersist, modExit,
                   calls, exitEvents, persistRets, exitRets, nPersist, nExit,
                   errorEvents>>
    /\ UNCHANGED <<inputVars, shotVars, soundVars>>

\* _runRuntime throws: the catch of line 44 calls reject(e), after ready(this)
\* has resolved the promise.
RunRuntimeThrows ==
    /\ stack # <<>> /\ Top.fn = "runRuntime"
    /\ ciPromise' = RejectCi(ciPromise)
    /\ ctorErr' = "runRuntime"
    /\ stack' = Pop(stack)
    /\ hs' = "awaitCi"
    /\ UNCHANGED <<hsErr, startupErrorLog, errSink, emitted>>
    /\ UNCHANGED <<persistPromise, exitPromise, pprom, eprom, modPersist, modExit,
                   calls, exitEvents, persistRets, exitRets, nPersist, nExit,
                   errorEvents>>
    /\ UNCHANGED <<inputVars, shotVars, soundVars>>

\* exit(), lines 182-184, once exitPromise is known to be undefined: the
\* executor registers module.exit and calls _requestExit.
ExitBegin ==
    /\ eprom' = Append(eprom, NewExitPromise)
    /\ modExit' = Len(eprom) + 1
    /\ calls' = Bump(calls, "requestExit")
    /\ stack' = Append(stack, Frame("requestExit", Len(eprom) + 1))

\* The await of line 41 throws what the constructor threw.
HandshakeCtorFailed ==
    /\ hs = "awaitCi" /\ stack = <<>>
    /\ ciPromise = "rejected"
    /\ hs' = "rejected"
    /\ hsErr' = Thrown(ctorErr)
    /\ UNCHANGED <<ciPromise, ctorErr, startupErrorLog, errSink, emitted>>
    /\ UNCHANGED ciVars
    /\ UNCHANGED <<inputVars, shotVars, soundVars>>

\* The StartupError thrown at once, without the exit of line 50.
HandshakeStartupFailedNoExit ==
    /\ hs = "awaitCi" /\ stack = <<>>
    /\ ciPromise = "resolved"
    /\ Len(startupErrorLog) > 0
    /\ hs' = "rejected"
    /\ hsErr' = StartupError(startupErrorLog)
    /\ UNCHANGED <<ciPromise, ctorErr, startupErrorLog, errSink, emitted>>
    /\ UNCHANGED ciVars
    /\ UNCHANGED <<inputVars, shotVars, soundVars>>

\* Lines 49-50: the log is not empty, ci.exit() is called.
HandshakeStartupFailed ==
    /\ hs = "awaitCi" /\ stack = <<>>
    /\ ciPromise = "resolved"
    /\ Len(startupErrorLog) > 0
    /\ exitPromise = 0
    /\ hs' = "callingExit"
    /\ ExitBegin
    /\ UNCHANGED <<ciPromise, ctorErr, hsErr, startupErrorLog, errSink, emitted>>
    /\ UNCHANGED <<persistPromise, exitPromise, pprom, modPersist, exitEvents,
                   persistRets, exitRets, nPersist, nExit, errorEvents>>
    /\ UNCHANGED <<inputVars, shotVars, soundVars>>

\* The sink module.err and module.printErr hold once line 55 has run.
ReadySinkNotSwapped == "startup"
ReadySink == "normal"

\* Lines 54-56: the log is empty, the sinks are swapped and ci is returned.
HandshakeReady ==
    /\ hs = "awaitCi" /\ stack = <<>>
    /\ ciPromise = "resolved"
    /\ Len(startupErrorLog) = 0
    /\ errSink' = ReadySink
    /\ hs' = "returned"
    /\ UNCHANGED <<ciPromise, ctorErr, hsErr, startupErrorLog, emitted>>
    /\ UNCHANGED ciVars
    /\ UNCHANGED <<inputVars, shotVars, soundVars>>

\* Lines 50-51: the awaited exit promise is fulfilled, the StartupError is thrown.
HandshakeThrowsStartupError ==
    /\ hs = "awaitExit" /\ stack = <<>>
    /\ eprom[exitPromise].outer = "resolved"
    /\ hs' = "rejected"
    /\ hsErr' = StartupError(startupErrorLog)
    /\ UNCHANGED <<ciPromise, ctorErr, startupErrorLog, errSink, emitted>>
    /\ UNCHANGED ciVars
    /\ UNCHANGED <<inputVars, shotVars, soundVars>>

\* Line 50: the awaited exit promise is rejected, the await throws its error.
HandshakeExitRejected ==
    /\ hs = "awaitExit" /\ stack = <<>>
    /\ eprom[exitPromise].outer = "rejected"
    /\ hs' = "rejected"
    /\ hsErr' = Thrown("requestExit")
    /\ UNCHANGED <<ciPromise, ctorErr, startupErrorLog, errSink, emitted>>
    /\ UNCHANGED ciVars
    /\ UNCHANGED <<inputVars, shotVars, soundVars>>

(* ------------------ DirectCommandInterface, lines 156-190 ------------- *)
\* The host holds the interface once DosDirect has returned it.  It calls
\* from a task or a promise reaction of its own, or from an event handler the
\* module triggers while a module request is executing (stack not empty).
HostMayCall == hs = "returned"

\* Lines 157-159 and 178-180: the memoized promise is returned when set.
Memoized(promise) == promise # 0

\* persist(), lines 156-168: return the memoized promise, or create one,
\* register module.persist and call _packFsToBundle.
PersistCall ==
    /\ HostMayCall
    /\ nPersist < MaxCalls
    /\ nPersist' = nPersist + 1
    /\ IF Memoized(persistPromise)
       THEN /\ persistRets' = Append(persistRets, persistPromise)
            /\ UNCHANGED <<stack, pprom, modPersist, calls>>
       ELSE /\ Len(stack) < MaxDepth
            /\ pprom' = Append(pprom, NewPersistPromise)
            /\ modPersist' = Len(pprom) + 1
            /\ calls' = Bump(calls, "packFsToBundle")
            /\ stack' = Append(stack, Frame("packFsToBundle", Len(pprom) + 1))
            /\ UNCHANGED persistRets
    /\ UNCHANGED hsVars
    /\ UNCHANGED <<persistPromise, exitPromise, eprom, modExit, exitEvents,
                   exitRets, nExit, errorEvents>>
    /\ UNCHANGED <<inputVars, shotVars, soundVars>>

\* Lines 172-174: the executor is done, the promise is stored and returned.
PersistEnd(p) ==
    /\ stack' = Pop(stack)
    /\ persistPromise' = p
    /\ persistRets' = Append(persistRets, p)

\* _packFsToBundle returns.
PackReturns ==
    /\ stack # <<>> /\ Top.fn = "packFsToBundle"
    /\ PersistEnd(Top.p)
    /\ UNCHANGED hsVars
    /\ UNCHANGED <<exitPromise, pprom, eprom, modPersist, modExit, calls,
                   exitEvents, exitRets, nPersist, nExit, errorEvents>>
    /\ UNCHANGED <<inputVars, shotVars, soundVars>>

\* _packFsToBundle throws: lines 169-171 reject the promise.  module.persist
\* is left as it is.
PackThrows ==
    /\ stack # <<>> /\ Top.fn = "packFsToBundle"
    /\ pprom' = [pprom EXCEPT ![Top.p] = PersistThrew(@)]
    /\ PersistEnd(Top.p)
    /\ UNCHANGED hsVars
    /\ UNCHANGED <<exitPromise, eprom, modPersist, modExit, calls,
                   exitEvents, exitRets, nPersist, nExit, errorEvents>>
    /\ UNCHANGED <<inputVars, shotVars, soundVars>>

\* exit(), lines 177-184, called by the host.
ExitCall ==
    /\ HostMayCall
    /\ nExit < MaxCalls
    /\ nExit' = nExit + 1
    /\ IF Memoized(exitPromise)
       THEN /\ exitRets' = Append(exitRets, exitPromise)
            /\ UNCHANGED <<stack, eprom, modExit, calls>>
       ELSE /\ Len(stack) < MaxDepth
            /\ ExitBegin
            /\ UNCHANGED exitRets
    /\ UNCHANGED hsVars
    /\ UNCHANGED <<persistPromise, exitPromise, pprom, modPersist, exitEvents,
                   persistRets, nPersist, errorEvents>>
    /\ UNCHANGED <<inputVars, shotVars, soundVars>>

\* Lines 185-189: .then is attached, the promise is stored and returned; in
\* DosDirect the await of line 50 starts.
ExitEnd(p) ==
    /\ stack' = Pop(stack)
    /\ exitPromise' = p
    /\ exitRets' = Append(exitRets, p)
    /\ hs' = IF hs = "callingExit" THEN "awaitExit" ELSE hs

\* _requestExit returns.
RequestExitReturns ==
    /\ stack # <<>> /\ Top.fn = "requestExit"
    /\ ExitEnd(Top.p)
    /\ UNCHANGED <<ciPromise, ctorErr, hsErr, startupErrorLog, errSink, emitted>>
    /\ UNCHANGED <<persistPromise, pprom, eprom, modPersist, modExit, calls,
                   exitEvents, persistRets, nPersist, nExit, errorEvents>>
    /\ UNCHANGED <<inputVars, shotVars, soundVars>>

\* _requestExit throws inside the executor: the Promise constructor rejects
\* the promise with the exception.
RequestExitThrows ==
    /\ stack # <<>> /\ Top.fn = "requestExit"
    /\ eprom' = [eprom EXCEPT ![Top.p] = RejectExit(@)]
    /\ ExitEnd(Top.p)
    /\ UNCHANGED <<ciPromise, ctorErr, hsErr, startupErrorLog, errSink, emitted>>
    /\ UNCHANGED <<persistPromise, pprom, modPersist, modExit, calls,
                   exitEvents, persistRets, nPersist, nExit, errorEvents>>
    /\ UNCHANGED <<inputVars, shotVars, soundVars>>

\* The reaction of .then (line 185) is queued once the inner promise settles.
ThenReadyEager(p) == p.outer = "pending"
ThenReady(p) == p.inner # "pending" /\ p.outer = "pending"

\* A reaction that fulfils the promise without firing the event.
FireExitSkipped(n) == n

\* Line 186: this.events().fireExit(), counted.
FireExit(n) == n + 1

\* Lines 185-187: the inner promise is fulfilled, the Exit event is fired and
\* the promise exit() returned is fulfilled.
ExitThenFulfilled(p) ==
    /\ stack = <<>>
    /\ ThenReady(eprom[p])
    /\ eprom[p].inner # "rejected"
    /\ exitEvents' = FireExit(exitEvents)
    /\ eprom' = [eprom EXCEPT ![p].outer = "resolved"]
    /\ UNCHANGED hsVars
    /\ UNCHANGED <<stack, persistPromise, exitPromise, pprom, modPersist, modExit,
                   calls, persistRets, exitRets, nPersist, nExit, errorEvents>>
    /\ UNCHANGED <<inputVars, shotVars, soundVars>>

\* The inner promise is rejected: .then has no rejection handler, the promise
\* exit() returned is rejected and no Exit event is fired.
ExitThenRejected(p) ==
    /\ stack = <<>>
    /\ ThenReady(eprom[p])
    /\ eprom[p].inner = "rejected"
    /\ eprom' = [eprom EXCEPT ![p].outer = "rejected"]
    /\ UNCHANGED hsVars
    /\ UNCHANGED <<stack, persistPromise, exitPromise, pprom, modPersist, modExit,
                   calls, exitEvents, persistRets, exitRets, nPersist, nExit,
                   errorEvents>>
    /\ UNCHANGED <<inputVars, shotVars, soundVars>>

(* ------------------------- the embedded module ------------------------ *)
\* The module calls module.err or module.printErr: startupErrFn (lines 24-28)
\* until line 54 swaps it for errFn (lines 20-22).
ModEmitErr(args) ==
    /\ ModuleRuns
    /\ errorEvents < MaxFrags
    /\ errorEvents' = errorEvents + 1
    /\ IF errSink = "startup"
       THEN /\ startupErrorLog' = AppendStartupLog(startupErrorLog, args)
            /\ emitted' = Append(emitted, args)
       ELSE UNCHANGED <<startupErrorLog, emitted>>
    /\ UNCHANGED <<hs, ciPromise, ctorErr, hsErr, errSink>>
    /\ UNCHANGED <<stack, persistPromise, exitPromise, pprom, eprom, modPersist,
                   modExit, calls, exitEvents, persistRets, exitRets, nPersist, nExit>>
    /\ UNCHANGED <<inputVars, shotVars, soundVars>>

\* The module calls module.persist(archive), lines 162-165.
ModInvokePersist(archive) ==
    /\ ModuleRuns
    /\ modPersist # 0
    /\ pprom' = [pprom EXCEPT ![modPersist] = PersistCallback(@, archive)]
    /\ modPersist' = 0
    /\ UNCHANGED hsVars
    /\ UNCHANGED <<stack, persistPromise, exitPromise, eprom, modExit, calls,
                   exitEvents, persistRets, exitRets, nPersist, nExit, errorEvents>>
    /\ UNCHANGED <<inputVars, shotVars, soundVars>>

\* The module calls module.exit(), the resolve function of line 183.
ModInvokeExit ==
    /\ ModuleRuns
    /\ modExit # 0
    /\ eprom' = [eprom EXCEPT ![modExit] = ResolveExit(@)]
    /\ UNCHANGED hsVars
    /\ UNCHANGED <<stack, persistPromise, exitPromise, pprom, modPersist, modExit,
                   calls, exitEvents, persistRets, exitRets, nPersist, nExit,
                   errorEvents>>
    /\ UNCHANGED <<inputVars, shotVars, soundVars>>

LifeNext ==
    \/ InstantiateOk
    \/ InstantiateFail
    \/ CallMainReturns
    \/ CallMainThrows
    \/ RunRuntimeReturns
    \/ RunRuntimeThrows
    \/ HandshakeCtorFailed
    \/ HandshakeStartupFailed
    \/ HandshakeReady
    \/ HandshakeThrowsStartupError
    \/ HandshakeExitRejected
    \/ PersistCall
    \/ PackReturns
    \/ PackThrows
    \/ ExitCall
    \/ RequestExitReturns
    \/ RequestExitThrows
    \/ \E p \in 1..Len(eprom) : ExitThenFulfilled(p)
    \/ \E p \in 1..Len(eprom) : ExitThenRejected(p)
    \/ \E args \in Frags : ModEmitErr(args)
    \/ \E archive \in Archives : ModInvokePersist(archive)
    \/ ModInvokeExit

(* ------------------ input, lines 128-154 ------------------------------ *)
NoCall == [op |-> "none", a |-> 0, b |-> 0, t |-> 0, km |-> <<>>, n |-> 0]

InitInput ==
    /\ keyMatrix = <<>>
    /\ sent = <<>>
    /\ now = 0
    /\ ticks = 0
    /\ nInput = 0
    /\ lastCall = NoCall

\* Line 140: this.keyMatrix[keyCode] === true; an absent code is not pressed.
Recorded(km, keyCode) == keyCode \in DOMAIN km /\ km[keyCode] = TRUE

\* Line 144: this.keyMatrix[keyCode] = pressed
SetKey(km, keyCode, pressed) ==
    [c \in DOMAIN km \cup {keyCode} |-> IF c = keyCode THEN pressed ELSE km[c]]

\* An event as the module receives it, with the wall clock at which the host
\* issued it (at) and its number in issue order (seq).
Event(fn, a, b, timeMs, st) ==
    [fn |-> fn, a |-> a, b |-> b, time |-> timeMs, at |-> st.clock,
     seq |-> st.issued + 1]

\* A call of module._addKey, module._mouseMove or module._mouseButton.
Forward(st, fn, a, b, timeMs) ==
    [st EXCEPT !.sent = Append(@, Event(fn, a, b, timeMs, st)),
               !.issued = @ + 1]

\* addKey without the comparison of lines 140-143.
AddKeyNoDedup(st, keyCode, pressed, timeMs) ==
    Forward([st EXCEPT !.km = SetKey(@, keyCode, pressed)],
            "addKey", keyCode, pressed, timeMs)

\* addKey, lines 139-146.
AddKey(st, keyCode, pressed, timeMs) ==
    IF Recorded(st.km, keyCode) = pressed
    THEN st
    ELSE Forward([st EXCEPT !.km = SetKey(@, keyCode, pressed)],
                 "addKey", keyCode, pressed, timeMs)

\* keyCodes.forEach(keyCode => this.addKey(keyCode, pressed, timeMs))
RECURSIVE AddKeys(_, _, _, _)
AddKeys(st, keyCodes, pressed, timeMs) ==
    IF keyCodes = <<>> THEN st
    ELSE AddKeys(AddKey(st, Head(keyCodes), pressed, timeMs),
                 Tail(keyCodes), pressed, timeMs)

\* One pass that presses and releases each key in turn.
RECURSIVE SimulateInterleaved(_, _, _)
SimulateInterleaved(st, keyCodes, timeMs) ==
    IF keyCodes = <<>> THEN st
    ELSE SimulateInterleaved(
             AddKey(AddKey(st, Head(keyCodes), TRUE, timeMs),
                    Head(keyCodes), FALSE, timeMs + KeyHoldMs),
             Tail(keyCodes), timeMs)

\* The two passes with their timestamps exchanged.
SimulateSwapped(st, keyCodes, timeMs) ==
    AddKeys(AddKeys(st, keyCodes, TRUE, timeMs + KeyHoldMs), keyCodes, FALSE, timeMs)

\* simulateKeyPress, lines 129-131: the press pass, then the release pass.
Simulate(st, keyCodes, timeMs) ==
    AddKeys(AddKeys(st, keyCodes, TRUE, timeMs), keyCodes, FALSE, timeMs + KeyHoldMs)

InputState == [km |-> keyMatrix, sent |-> sent, clock |-> now, issued |-> Len(sent)]
CallRecord(op, a, b) ==
    [op |-> op, a |-> a, b |-> b, t |-> now, km |-> keyMatrix, n |-> Len(sent)]

\* sendKeyEvent, lines 134-136.
SendKeyEvent(keyCode, pressed) ==
    /\ nInput < MaxInput
    /\ LET st == AddKey(InputState, keyCode, pressed, now)
       IN  keyMatrix' = st.km /\ sent' = st.sent
    /\ lastCall' = CallRecord("sendKeyEvent", keyCode, pressed)
    /\ nInput' = nInput + 1
    /\ UNCHANGED <<now, ticks>>
    /\ UNCHANGED <<lifeVars, shotVars, soundVars>>

\* simulateKeyPress, lines 128-132.
SimulateKeyPress(keyCodes) ==
    /\ nInput < MaxInput
    /\ LET st == Simulate(InputState, keyCodes, now)
       IN  keyMatrix' = st.km /\ sent' = st.sent
    /\ lastCall' = CallRecord("simulateKeyPress", keyCodes, 0)
    /\ nInput' = nInput + 1
    /\ UNCHANGED <<now, ticks>>
    /\ UNCHANGED <<lifeVars, shotVars, soundVars>>

\* sendMouseMotion, lines 148-150.
SendMouseMotion(x, y) ==
    /\ nInput < MaxInput
    /\ sent' = Forward(InputState, "mouseMove", x, y, now).sent
    /\ lastCall' = CallRecord("sendMouseMotion", x, y)
    /\ nInput' = nInput + 1
    /\ UNCHANGED <<keyMatrix, now, ticks>>
    /\ UNCHANGED <<lifeVars, shotVars, soundVars>>

\* A mouse button routed through addKey: recorded in the Key Matrix and
\* dropped when the recorded state already equals pressed.
SendMouseButtonDeduped(button, pressed) ==
    /\ nInput < MaxInput
    /\ LET st == AddKey(InputState, button, pressed, now)
       IN  keyMatrix' = st.km /\ sent' = st.sent
    /\ lastCall' = CallRecord("sendMouseButton", button, pressed)
    /\ nInput' = nInput + 1
    /\ UNCHANGED <<now, ticks>>
    /\ UNCHANGED <<lifeVars, shotVars, soundVars>>

\* sendMouseButton, lines 152-154.
SendMouseButton(button, pressed) ==
    /\ nInput < MaxInput
    /\ sent' = Forward(InputState, "mouseButton", button, pressed, now).sent
    /\ lastCall' = CallRecord("sendMouseButton", button, pressed)
    /\ nInput' = nInput + 1
    /\ UNCHANGED <<keyMatrix, now, ticks>>
    /\ UNCHANGED <<lifeVars, shotVars, soundVars>>

\* Time passes between two calls of the host; the wall clock does not go back.
Tick(d) ==
    /\ ticks < MaxTicks
    /\ now' = now + d
    /\ ticks' = ticks + 1
    /\ UNCHANGED <<keyMatrix, sent, nInput, lastCall>>
    /\ UNCHANGED <<lifeVars, shotVars, soundVars>>

KeyCodeLists == {<<a>> : a \in KeyCodes} \cup {<<a, b>> : a \in KeyCodes, b \in KeyCodes}

InputNext ==
    \/ \E keyCode \in KeyCodes, pressed \in BOOLEAN : SendKeyEvent(keyCode, pressed)
    \/ \E keyCodes \in KeyCodeLists : SimulateKeyPress(keyCodes)
    \/ \E x \in MouseX, y \in MouseY : SendMouseMotion(x, y)
    \/ \E button \in Buttons, pressed \in BOOLEAN : SendMouseButton(button, pressed)
    \/ \E d \in ClockSteps : Tick(d)

(* ------------------ screenshot, lines 114-126 ------------------------- *)
HeapSize == 4 + MaxDim * MaxDim * 4
Addresses == 0..(HeapSize - 1)
NoShot == [ptr |-> 0, len |-> 0, width |-> 0, height |-> 0, returned |-> <<>>,
           before |-> <<>>]

\* No frame yet: a 1x1 buffer of zero bytes at address 0.
InitShot ==
    /\ heap = [a \in Addresses |-> 0]
    /\ frameW = 1
    /\ frameH = 1
    /\ rgbaPtr = 0
    /\ shot = NoShot
    /\ nShots = 0
    /\ nWrites = 0

\* The frame buffers the module may hold when screenshot() is called.
PatternSeeds == {37, 255}
ByteSamples == {0, 255}
RgbaPtrs == {0, 4}
FramePattern(k) == [a \in Addresses |-> (k * (a + 1)) % 256]

InitShotAny ==
    /\ heap \in {FramePattern(k) : k \in PatternSeeds}
    /\ frameW \in 1..MaxDim
    /\ frameH \in 1..MaxDim
    /\ rgbaPtr \in RgbaPtrs
    /\ shot = NoShot
    /\ nShots = 0
    /\ nWrites = 0

\* The loop of lines 121-123 with the last pixel left out.
RECURSIVE ForceAlphaSkipsLast(_, _, _, _)
ForceAlphaSkipsLast(h, ptr, next, byteLength) ==
    IF next < byteLength - 1
    THEN ForceAlphaSkipsLast([h EXCEPT ![ptr + next] = 255], ptr, next + 4, byteLength)
    ELSE h

\* Lines 121-123: for (next = 3; next < rgba.byteLength; next += 4)
\* rgba[next] = 255, on the view of the module's memory at ptr.
RECURSIVE ForceAlpha(_, _, _, _)
ForceAlpha(h, ptr, next, byteLength) ==
    IF next < byteLength
    THEN ForceAlpha([h EXCEPT ![ptr + next] = 255], ptr, next + 4, byteLength)
    ELSE h

\* The bytes a Uint8ClampedArray view (line 119) shows of memory h.
ViewBytes(h, ptr, byteLength) == [i \in 1..byteLength |-> h[ptr + i - 1]]

\* screenshot(), lines 114-126.  The ImageData holds the view it was given.
Screenshot ==
    /\ nShots < MaxShots
    /\ LET byteLength == frameW * frameH * 4
           h == ForceAlpha(heap, rgbaPtr, 3, byteLength)
       IN  /\ heap' = h
           /\ shot' = [ptr |-> rgbaPtr, len |-> byteLength, width |-> frameW,
                       height |-> frameH,
                       returned |-> ViewBytes(h, rgbaPtr, byteLength),
                       before |-> heap]
    /\ nShots' = nShots + 1
    /\ UNCHANGED <<frameW, frameH, rgbaPtr, nWrites>>
    /\ UNCHANGED <<lifeVars, inputVars, soundVars>>

\* The module renders: it writes a byte of its memory.
ModuleWrites(addr, byte) ==
    /\ nWrites < MaxWrites
    /\ heap' = [heap EXCEPT ![addr] = byte]
    /\ nWrites' = nWrites + 1
    /\ UNCHANGED <<frameW, frameH, rgbaPtr, shot, nShots>>
    /\ UNCHANGED <<lifeVars, inputVars, soundVars>>

ShotNext ==
    \/ Screenshot
    \/ \E addr \in Addresses, byte \in ByteSamples : ModuleWrites(addr, byte)

(* ------------------ sound, lines 65, 81-83, 110-112 ------------------- *)
\* Line 65: private freq = 0.
InitSound ==
    /\ freq = 0
    /\ supplied = <<>>

\* Calls of the host on the interface that have started.
HostOps == nInput + nShots + nPersist + nExit

\* A store that keeps the first frequency it was given.
StoreFreqOnce(old, f) == IF old = 0 THEN f ELSE old

\* Line 82: this.freq = freq.
StoreFreq(old, f) == f

\* The module calls module.onSoundInit(f), the slot the constructor
\* assigned (lines 81-83) before its first call into the module.
OnSoundInit(f) ==
    /\ ModuleRuns
    /\ hs # "instantiating"
    /\ Len(supplied) < MaxSoundInits
    /\ freq' = StoreFreq(freq, f)
    /\ supplied' = Append(supplied, [f |-> f, ops |-> HostOps])
    /\ UNCHANGED <<lifeVars, inputVars, shotVars>>

\* soundFrequency(), lines 110-112.
SoundFrequency == freq

(* -------------------------- specifications ---------------------------- *)
\* The interface as DosDirect returns it when the module booted silently.
LifeReady ==
    /\ hs = "returned"
    /\ ciPromise = "resolved"
    /\ ctorErr = "none"
    /\ hsErr = NoErr
    /\ startupErrorLog = <<>>
    /\ errSink = "normal"
    /\ emitted = <<>>
    /\ stack = <<>>
    /\ persistPromise = 0
    /\ exitPromise = 0
    /\ pprom = <<>>
    /\ eprom = <<>>
    /\ modPersist = 0
    /\ modExit = 0
    /\ calls = [f \in {"callMain", "runRuntime", "packFsToBundle", "requestExit"} |->
                   IF f \in {"callMain", "runRuntime"} THEN 1 ELSE 0]
    /\ exitEvents = 0
    /\ persistRets = <<>>
    /\ exitRets = <<>>
    /\ nPersist = 0
    /\ nExit = 0
    /\ errorEvents = 0

vars == <<lifeVars, inputVars, shotVars, soundVars>>

\* The handshake and the lifecycle requests.
Init == InitLife /\ InitInput /\ InitShot /\ InitSound
Next == LifeNext
Spec == Init /\ [][Next]_vars

\* The input entry points of a ready interface.
InitKeys == LifeReady /\ InitInput /\ InitShot /\ InitSound
NextKeys == InputNext
SpecInput == InitKeys /\ [][NextKeys]_vars

\* screenshot() of a ready interface, for the frames the module may hold.
InitFrames == LifeReady /\ InitInput /\ InitShotAny /\ InitSound
NextFrames == ShotNext
SpecShot == InitFrames /\ [][NextFrames]_vars

\* The steps DosDirect and the promise reactions take on the host's side.
HandshakeStep ==
    \/ HandshakeCtorFailed
    \/ HandshakeStartupFailed
    \/ HandshakeReady
    \/ HandshakeThrowsStartupError
    \/ HandshakeExitRejected
    \/ \E p \in 1..Len(eprom) : ExitThenFulfilled(p)
    \/ \E p \in 1..Len(eprom) : ExitThenRejected(p)

\* A synchronous call into the module comes back: it returns or it throws.
RequestCompletes ==
    \/ CallMainReturns
    \/ CallMainThrows
    \/ RunRuntimeReturns
    \/ RunRuntimeThrows
    \/ PackReturns
    \/ PackThrows
    \/ RequestExitReturns
    \/ RequestExitThrows

\* The handshake under a fair event loop: queued continuations and reactions
\* run, calls into the module come back.  Nothing obliges the module to
\* invoke a callback (ModInvokeExit, ModInvokePersist) or to emit anything.
SpecFair == Spec /\ WF_vars(HandshakeStep) /\ WF_vars(RequestCompletes)

\* Every entry point of one instance in one run, from the handshake on: at
\* most MaxOps calls of the host, diagnostics and sound initialisations.
OpsDone == HostOps + Len(supplied) + errorEvents
OpsLeft == OpsDone < MaxOps
LifeSteps ==
    \/ InstantiateOk
    \/ InstantiateFail
    \/ CallMainReturns
    \/ CallMainThrows
    \/ RunRuntimeReturns
    \/ RunRuntimeThrows
    \/ HandshakeStep
    \/ PackReturns
    \/ PackThrows
    \/ RequestExitReturns
    \/ RequestExitThrows
    \/ \E archive \in Archives : ModInvokePersist(archive)
    \/ ModInvokeExit
NextSound ==
    \/ LifeSteps
    \/ OpsLeft /\ \E f \in Frequencies : OnSoundInit(f)
    \/ OpsLeft /\ \E args \in Frags : ModEmitErr(args)
    \/ OpsLeft /\ PersistCall
    \/ OpsLeft /\ ExitCall
    \/ OpsLeft /\ HostMayCall /\ \E keyCode \in KeyCodes, pressed \in BOOLEAN :
                                     SendKeyEvent(keyCode, pressed)
    \/ OpsLeft /\ HostMayCall /\ \E keyCode \in KeyCodes : SimulateKeyPress(<<keyCode>>)
    \/ OpsLeft /\ HostMayCall /\ \E x \in MouseX, y \in MouseY : SendMouseMotion(x, y)
    \/ OpsLeft /\ HostMayCall /\ \E button \in Buttons, pressed \in BOOLEAN :
                                     SendMouseButton(button, pressed)
    \/ OpsLeft /\ HostMayCall /\ Screenshot
SpecSound == Init /\ [][NextSound]_vars

(* ============================== claims ================================ *)

\* C1: the module's persist request and its exit request are each issued
\* at most once per instance, and every call of persist() (of exit())
\* returns the promise the first call returned.
C1_RequestsIssuedOnce ==
    /\ calls["packFsToBundle"] <= 1
    /\ calls["requestExit"] <= 1
    /\ \A i \in 1..Len(persistRets) : persistRets[i] = persistRets[1]
    /\ \A i \in 1..Len(exitRets) : exitRets[i] = exitRets[1]

\* C3: an Exit event is fired only in a step that starts in a state where
\* the module has already invoked the termination callback of the promise
\* whose reaction fires it.
C3_ExitEventAfterCallback ==
    [][exitEvents' # exitEvents =>
          \E p \in 1..Len(eprom) :
              /\ eprom[p].cb
              /\ eprom[p].outer = "pending"
              /\ eprom'[p].outer = "resolved"
              /\ exitEvents' = exitEvents + 1]_vars

\* C3 witness: an Exit event has been fired.
C3_Witness == exitEvents > 0 /\ hs = "returned"

\* The message a StartupError carries for the emitted argument lists: each
\* serialized and ended by a line break, in emission order.
RECURSIVE ConcatFragments(_)
ConcatFragments(frags) ==
    IF frags = <<>> THEN <<>>
    ELSE JsonStringify(Head(frags)) \o <<"\n">> \o ConcatFragments(Tail(frags))

\* C4: when the module has emitted diagnostics on its error sink and the
\* constructor has produced the interface without an exception, the
\* handshake, once settled, has rejected with a StartupError whose message
\* is the emitted fragments in emission order, and has not returned the
\* interface.
C4_StartupErrorCarriesLog ==
    ( /\ emitted # <<>>
      /\ ciPromise = "resolved" /\ ctorErr = "none"
      /\ hs \in {"returned", "rejected"} )
        => (hs = "rejected" /\ hsErr = StartupError(ConcatFragments(emitted)))

\* C5: two persist() calls made before the archive callback has fired issue
\* exactly one persist request, and the promises they return are the same
\* promise, resolved with the one archive the module delivers.
C5_ConcurrentPersistOnce ==
    /\ (nPersist >= 2 /\ \A p \in 1..Len(pprom) : ~pprom[p].cb)
          => calls["packFsToBundle"] = 1
    /\ \A i, j \in 1..Len(persistRets) :
          pprom[persistRets[i]].state = "resolved"
              => pprom[persistRets[j]] = pprom[persistRets[i]]

\* C7: when a step of the construction has thrown, the handshake does not
\* return the interface, and once settled it has rejected with that exception.
C7_CtorThrowRejects ==
    ctorErr # "none" =>
        /\ hs # "returned"
        /\ hs \in {"constructing", "awaitCi"} \/ (hs = "rejected" /\ hsErr = Thrown(ctorErr))

\* C8: when the persist request has thrown, the promise is rejected with the
\* thrown error and the archive callback of that request is not invoked
\* afterwards.
C8_ThrowAbandonsCallback ==
    \A p \in 1..Len(pprom) :
        pprom[p].threw =>
            /\ pprom[p].state = "rejected" /\ pprom[p].val = "E_pack"
            /\ ~pprom[p].cbAfterThrow

(* ------------------------- claims about input ------------------------- *)
\* The event is the add-key event (keyCode, pressed, timeMs).
IsKeyEvent(e, keyCode, pressed, timeMs) ==
    e.fn = "addKey" /\ e.a = keyCode /\ e.b = pressed /\ e.time = timeMs

\* The pressed value of the last add-key event forwarded for keyCode; FALSE
\* when none was forwarded.
LastForwarded(events, keyCode) ==
    LET S == {i \in 1..Len(events) : events[i].fn = "addKey" /\ events[i].a = keyCode}
    IN  IF S = {} THEN FALSE
        ELSE events[CHOOSE i \in S : \A j \in S : j <= i].b

\* C2: a sendKeyEvent(code, pressed) call forwards one add-key event, with
\* its arguments, exactly when pressed differs from the state the Key Matrix
\* recorded for the code before the call (absent: released); a call that
\* forwards nothing leaves the Key Matrix as it was; and the Key Matrix
\* holds for each code the pressed value of the last forwarded event.
C2_KeyDedup ==
    /\ lastCall.op = "sendKeyEvent" =>
          LET forwarded == Len(sent) > lastCall.n
          IN  /\ forwarded <=> (lastCall.b # Recorded(lastCall.km, lastCall.a))
              /\ forwarded =>
                    /\ Len(sent) = lastCall.n + 1
                    /\ IsKeyEvent(sent[Len(sent)], lastCall.a, lastCall.b, lastCall.t)
              /\ ~forwarded => keyMatrix = lastCall.km
    /\ \A keyCode \in KeyCodes :
          Recorded(keyMatrix, keyCode) = LastForwarded(sent, keyCode)

\* C2 witness: a press of a key that is recorded as pressed was absorbed.
C2_Witness ==
    /\ lastCall.op = "sendKeyEvent"
    /\ lastCall.b = TRUE
    /\ Recorded(lastCall.km, lastCall.a)
    /\ Len(sent) = lastCall.n
    /\ Len(sent) > 0

\* The four events simulateKeyPress(a, b) at time t is said to forward.
FourEvents ==
    LET n == lastCall.n
        a == lastCall.a[1]
        b == lastCall.a[2]
        t == lastCall.t
    IN  /\ Len(sent) = n + 4
        /\ IsKeyEvent(sent[n + 1], a, TRUE, t)
        /\ IsKeyEvent(sent[n + 2], b, TRUE, t)
        /\ IsKeyEvent(sent[n + 3], a, FALSE, t + 16)
        /\ IsKeyEvent(sent[n + 4], b, FALSE, t + 16)

IsPairTap == lastCall.op = "simulateKeyPress" /\ Len(lastCall.a) = 2

\* C6 as stated: in every state of the instance and for any codes a and b,
\* simulateKeyPress(a, b) forwards exactly press(a,t), press(b,t),
\* release(a,t+16), release(b,t+16).
C6_FourEventsAlways == IsPairTap => FourEvents

\* C6 amended: the four events are forwarded when a and b are different
\* codes and the Key Matrix records neither as pressed before the call.
C6_FourEventsWhenReleased ==
    ( /\ IsPairTap
      /\ lastCall.a[1] # lastCall.a[2]
      /\ ~Recorded(lastCall.km, lastCall.a[1])
      /\ ~Recorded(lastCall.km, lastCall.a[2]) ) => FourEvents

\* C6 witness: a tap of two different released keys, made after earlier
\* events, has forwarded its four events.
C6_Witness ==
    /\ IsPairTap
    /\ lastCall.a[1] # lastCall.a[2]
    /\ ~Recorded(lastCall.km, lastCall.a[1])
    /\ ~Recorded(lastCall.km, lastCall.a[2])
    /\ lastCall.n > 0
    /\ Len(sent) = lastCall.n + 4

\* The events reach the module in the order the host issued them.
IssueOrder ==
    \A i, j \in 1..Len(sent) :
        i < j => sent[i].seq < sent[j].seq /\ sent[i].at <= sent[j].at

\* The release of a simulated key press: it carries the time of the call
\* plus KeyHoldMs.
IsSimulatedRelease(e) ==
    e.fn = "addKey" /\ e.b = FALSE /\ e.time = e.at + KeyHoldMs

\* C9 as stated: the events arrive in issue order and the timestamps of
\* successive events never decrease.
C9_TimestampsMonotone ==
    /\ IssueOrder
    /\ \A i \in 1..(Len(sent) - 1) : sent[i].time <= sent[i + 1].time

\* C9 amended: the events arrive in issue order; an event's timestamp is
\* never smaller than that of an earlier event other than the release of a
\* simulated key press, and never more than 16 smaller than that of any
\* earlier event.
C9_TimestampsWithinHold ==
    /\ IssueOrder
    /\ \A i, j \in 1..Len(sent) :
          i < j =>
            /\ sent[i].time <= sent[j].time + 16
            /\ IsSimulatedRelease(sent[i]) \/ sent[i].time <= sent[j].time

\* C9 witness: an event issued after the clock has advanced carries a
\* smaller timestamp than the release before it.
C9_Witness ==
    \E i \in 1..(Len(sent) - 1) :
        /\ sent[i + 1].time < sent[i].time
        /\ sent[i + 1].at > sent[i].at

(* ----------------------- claims about screenshot ---------------------- *)
\* C10: the image screenshot() returns has the module's width and height,
\* holds width*height pixels of four bytes, the fourth byte of every pixel
\* is 255, and the other three are the bytes the module's buffer held when
\* screenshot() was called.
C10_ScreenshotOpaque ==
    nShots > 0 =>
        /\ shot.width = frameW /\ shot.height = frameH
        /\ Len(shot.returned) = shot.width * shot.height * 4
        /\ \A k \in 1..Len(shot.returned) :
              IF (k - 1) % 4 = 3
              THEN shot.returned[k] = 255
              ELSE shot.returned[k] = shot.before[shot.ptr + k - 1]

\* C10 witness: a screenshot of more than one pixel was taken of a buffer
\* whose alpha bytes were not 255 and whose colour bytes were not all equal.
C10_Witness ==
    /\ nShots > 0
    /\ shot.width * shot.height > 1
    /\ \A k \in 1..shot.len : (k - 1) % 4 = 3 => shot.before[shot.ptr + k - 1] # 255
    /\ shot.before[shot.ptr] # shot.before[shot.ptr + 1]

\* C11: the image screenshot() returned is a copy: whatever the module
\* writes to its memory afterwards, the pixel data of the returned image
\* are the bytes it held when screenshot() returned.
C11_ScreenshotIsCopy ==
    nShots > 0 => ViewBytes(heap, shot.ptr, shot.len) = shot.returned

(* ------------------------- claims about the mouse --------------------- *)
IsMouseCall == lastCall.op \in {"sendMouseMotion", "sendMouseButton"}
MouseFn == IF lastCall.op = "sendMouseMotion" THEN "mouseMove" ELSE "mouseButton"

\* C12: a call of sendMouseMotion(x, y) or sendMouseButton(button, pressed)
\* forwards exactly one event to the module, with the arguments of the call
\* and the relative time of the call, whatever was sent before, and leaves
\* the Key Matrix as it was.
C12_MouseForwardsOne ==
    IsMouseCall =>
        /\ Len(sent) = lastCall.n + 1
        /\ SubSeq(sent, 1, lastCall.n) = SubSeq(sent, 1, Len(sent) - 1)
        /\ LET e == sent[Len(sent)]
           IN  /\ e.fn = MouseFn
               /\ e.a = lastCall.a /\ e.b = lastCall.b
               /\ e.time = lastCall.t
        /\ keyMatrix = lastCall.km

\* C12 witness: a mouse call that repeats the arguments and the timestamp
\* of the event forwarded just before it, made while a key is held.
C12_Witness ==
    /\ IsMouseCall
    /\ lastCall.n > 0
    /\ Len(sent) = lastCall.n + 1
    /\ LET e == sent[Len(sent)]
           d == sent[Len(sent) - 1]
       IN  d.fn = e.fn /\ d.a = e.a /\ d.b = e.b /\ d.time = e.time
    /\ \E k \in KeyCodes : Recorded(lastCall.km, k)

(* --------------------- claims about diagnostics ----------------------- *)
\* C13: once the handshake has returned the ready interface, a diagnostic
\* the module emits on err is forwarded to the Event Bus as one error
\* message and nothing else happens: the Startup Error Log, the outcome of
\* the handshake and every promise stay as they were.  While the handshake
\* is in progress, a diagnostic is forwarded as one error message and also
\* appended to the Startup Error Log.
C13_DiagnosticsAfterReady ==
    [][errorEvents' # errorEvents =>
          /\ errorEvents' = errorEvents + 1
          /\ IF hs = "returned"
             THEN /\ startupErrorLog' = startupErrorLog
                  /\ hs' = hs /\ hsErr' = hsErr /\ ciPromise' = ciPromise
                  /\ pprom' = pprom /\ eprom' = eprom
             ELSE /\ Len(startupErrorLog') > Len(startupErrorLog)
                  /\ SubSeq(startupErrorLog', 1, Len(startupErrorLog)) = startupErrorLog
                  /\ Len(emitted') = Len(emitted) + 1]_vars

\* C13 witness: the interface was returned with an empty log and the module
\* has emitted a diagnostic since.
C13_Witness ==
    /\ hs = "returned"
    /\ errorEvents > 0
    /\ startupErrorLog = <<>>

(* ------------------------- claims about exit -------------------------- *)
Fulfilled(p) == eprom[p].outer = "resolved"

\* C15: the promise exit() returns is fulfilled only after the Exit event
\* was fired, and the Exit event is fired only after the module invoked the
\* termination callback: the step that fulfils the promise finds the
\* callback already invoked and fires the event, and a caller that awaited
\* the promise (the handshake, line 50) continues only after the event.
C15_ExitOrder ==
    /\ [](\A p \in 1..Len(eprom) : Fulfilled(p) => eprom[p].cb)
    /\ [](Cardinality({p \in 1..Len(eprom) : Fulfilled(p)}) <= exitEvents)
    /\ [](hsErr.kind = "startup" => exitEvents >= 1)
    /\ [][\A p \in 1..Len(eprom) :
             (eprom[p].outer = "pending" /\ p <= Len(eprom') /\ eprom'[p].outer = "resolved")
                 => eprom[p].cb /\ exitEvents' = exitEvents + 1]_vars

\* C15 witness: a promise returned by exit() has been fulfilled.
C15_Witness ==
    \E p \in 1..Len(eprom) : Fulfilled(p) /\ exitEvents >= 1

\* C16: when the Startup Error Log is not empty after construction, the
\* handshake issues the module's exit request exactly once, and it rejects
\* with the StartupError only after that request was issued; when the log is
\* empty the handshake issues no exit request.
C16_HandshakeExitRequest ==
    /\ [](hs \in {"instantiating", "constructing", "awaitCi"} => calls["requestExit"] = 0)
    /\ [](hs \in {"callingExit", "awaitExit"} =>
              calls["requestExit"] = 1 /\ Len(startupErrorLog) > 0)
    /\ [](hsErr.kind = "startup" => calls["requestExit"] = 1)
    /\ [](hs = "returned" /\ nExit = 0 => calls["requestExit"] = 0)
    /\ [][hs = "awaitCi" /\ hs' # hs /\ ciPromise = "resolved" =>
             IF Len(startupErrorLog) > 0
             THEN hs' = "callingExit" /\ calls'["requestExit"] = 1
             ELSE hs' = "returned" /\ calls'["requestExit"] = 0]_vars

\* C16 witness: the handshake has rejected with the StartupError.
C16_Witness ==
    /\ hs = "rejected"
    /\ hsErr.kind = "startup"
    /\ Len(hsErr.msg) > 0

\* C19: the Exit event is fired at most once on an interface, however often
\* exit() is called and however often the module invokes module.exit.
C19_ExitEventAtMostOnce == exitEvents <= 1

ExitThrew == \E p \in 1..Len(eprom) : eprom[p].threw
PersistRequestThrew == \E p \in 1..Len(pprom) : pprom[p].threw

\* C20: a lifecycle request that throws is final.  If _requestExit threw,
\* the promise of that exit() is rejected and no Exit event is fired; if
\* _packFsToBundle threw, the promise of that persist() is rejected; and a
\* call of the same operation made after the throw issues no request and
\* returns that rejected promise.
C20_FailedRequestTerminal ==
    /\ [](\A p \in 1..Len(eprom) :
             eprom[p].threw => eprom[p].inner = "rejected" /\ eprom[p].outer # "resolved")
    /\ [](ExitThrew => exitEvents = 0)
    /\ [](\A p \in 1..Len(pprom) : pprom[p].threw => pprom[p].state = "rejected")
    /\ [][ExitThrew /\ nExit' = nExit + 1 =>
              /\ calls' = calls
              /\ Len(exitRets') = Len(exitRets) + 1
              /\ eprom[exitRets'[Len(exitRets')]].threw]_vars
    /\ [][PersistRequestThrew /\ nPersist' = nPersist + 1 =>
              /\ calls' = calls
              /\ Len(persistRets') = Len(persistRets) + 1
              /\ pprom[persistRets'[Len(persistRets')]].threw]_vars

(* ----------------------- claims about the lifecycle ------------------- *)
\* The lifecycle state of an instance, read off the program's state: Created
\* (0) until the module signalled ready, Running (1) until an exit request
\* was issued, ExitRequested (2) until the module invoked the termination
\* callback, Exited (3) afterwards.
LifecycleState ==
    IF \E p \in 1..Len(eprom) : eprom[p].cb THEN 3
    ELSE IF calls["requestExit"] > 0 THEN 2
    ELSE IF ciPromise = "resolved" THEN 1
    ELSE 0

\* C17: the lifecycle state never decreases; a call of exit() made once an
\* exit request was issued and before termination issues no request and
\* returns the promise of the first call; a first persist() made in
\* ExitRequested issues the persist request, and its promise is fulfilled in
\* the step in which the module invokes the archive callback; a step that
\* sets the memoized promise of persist leaves that of exit alone, and the
\* other way round.
C17_LifecycleForward ==
    /\ [][LifecycleState' >= LifecycleState]_vars
    /\ [][nExit' = nExit + 1 /\ LifecycleState = 2 =>
              /\ calls' = calls
              /\ Len(exitRets) > 0
              /\ exitRets' = Append(exitRets, exitRets[1])]_vars
    /\ [][nPersist' = nPersist + 1 /\ LifecycleState = 2 /\ calls["packFsToBundle"] = 0 =>
              calls'["packFsToBundle"] = 1 /\ modPersist' # 0]_vars
    /\ [][modPersist # 0 /\ modPersist' = 0 /\ pprom[modPersist].state = "pending" =>
              pprom'[modPersist].state = "resolved"]_vars
    /\ [][persistPromise' # persistPromise => exitPromise' = exitPromise /\ eprom' = eprom]_vars
    /\ [][exitPromise' # exitPromise => persistPromise' = persistPromise /\ pprom' = pprom]_vars

(* ----------------------- claims about termination --------------------- *)
Settled == hs \in {"returned", "rejected"}

\* C14: a handshake whose module instantiation has completed eventually
\* settles, by returning the interface or by rejecting, when the host's
\* steps are scheduled fairly, whether or not the module ever invokes the
\* termination callback of the exit requested on the failure path.
C14_HandshakeSettles == (hs = "constructing") ~> Settled

====
